---- MODULE Spec2Model ----
(***************************************************************************)
(* A model of src/imagine.py: the command-line run (main), the generator   *)
(* factory (create_generators), the prompt-to-image loop                   *)
(* (generate_images), the response parser (parse_json_response) and the    *)
(* image normalizer (crop_to_square).                                      *)
(*                                                                         *)
(* Three specifications share the module:                                  *)
(*   Spec       one run of main(), from the parsed arguments to the exit;  *)
(*   SpecParse  parse_json_response applied to one response text;          *)
(*   SpecCrop   crop_to_square applied to one image file.                  *)
(* The providers (xai_sdk, google.genai) are outside the repository: what  *)
(* a provider call returns or raises is a nondeterministic choice.         *)
(***************************************************************************)
EXTENDS Integers, Sequences, FiniteSets, TLC

VARIABLES
    pc,                 \* position of main(): main, generate_images, loop, crop, done, halted
    args,               \* parse_args(): language, image, dry_run
    env,                \* os.environ: XAI_API_KEY, GOOGLE_API_KEY
    env_reads,          \* the environment variables create_generators has read
    clients,            \* create_generators' clients dict (its keys)
    language_generator, \* the LanguageGenerator built: None, grok, gemini
    image_generator,    \* the ImageGenerator built: None, grok, gemini
    lang_res,           \* generate_images' parsed response
    i,                  \* generate_images' loop index (enumerate)
    calls,              \* the Image Generator calls made, in order
    res,                \* generate_images' res list
    generated_images,   \* main's generated_images, bound once generate_images returns
    j,                  \* main's crop loop position
    disk,               \* the files of the output directory
    error,              \* the uncaught exception that ended the run
    net_calls,          \* provider (network) calls made
    response,           \* parse_json_response: its argument
    payload,            \* how the response text was put together
    parse_out,          \* parse_json_response: what it returned, raised and printed
    image,              \* crop_to_square: the size of the image file at image_path
    target,             \* crop_to_square: target_width, target_height
    crop_out            \* crop_to_square: the crop box and the returned image

runVars == <<pc, args, env, env_reads, clients, language_generator, image_generator,
             lang_res, i, calls, res, generated_images, j, disk, error, net_calls>>
parseVars == <<response, payload, parse_out>>
cropVars == <<image, target, crop_out>>
vars == <<runVars, parseVars, cropVars>>

(***************************************************************************)
(* Bounds of the model.                                                    *)
(***************************************************************************)
\* The longest `images` sequence a Language Generator response carries.
MaxImages == 5
\* The longest JSON document put inside a fence.
MaxJsonLen == 5
\* The longest response text without a fence.
MaxPlainLen == 4
\* The largest width and height of an image file.
MaxDim == 5
\* The largest target width and height besides the command line's default.
MaxTarget == 3

(***************************************************************************)
(* Values.                                                                 *)
(***************************************************************************)
GROK == "grok"
GEMINI == "gemini"
\* class LanguageModel / class ImageModel: the members of the two enums.
LanguageModel == {GROK, GEMINI}
ImageModel == {GROK, GEMINI}

\* An environment variable is unset, set to the empty string, or set to a key.
EnvValues == {"unset", "empty", "key"}

\* `not api_key`: os.environ.get gives None when unset, "" when empty.
NotApiKey(v) == v \in {"unset", "empty"}

NoError == [kind |-> "None", detail |-> ""]
Raised(kind, detail) == [kind |-> kind, detail |-> detail]

(***************************************************************************)
(* create_generators (lines 194-232).                                      *)
(***************************************************************************)
\* The result of create_generators: the exception it raised (or none), the
\* environment variables it read, the clients it built and the two generators.
FactoryResult(err, reads, cl, lg, ig) ==
    [error |-> err, reads |-> reads, clients |-> cl,
     language_generator |-> lg, image_generator |-> ig]

\* A create_generators that resolves a credential for the image role only.
create_generators_image_role_only(language_model, image_model, environ) ==
    LET needXai == image_model = GROK
        needGoogle == image_model = GEMINI
        reads1 == IF needXai THEN {"XAI_API_KEY"} ELSE {}
        clients1 == IF needXai THEN {"xai"} ELSE {}
        reads2 == IF needGoogle THEN reads1 \cup {"GOOGLE_API_KEY"} ELSE reads1
        clients2 == IF needGoogle THEN clients1 \cup {"google"} ELSE clients1
    IN  IF needXai /\ NotApiKey(environ.XAI_API_KEY)
        THEN FactoryResult(Raised("ValueError", "XAI_API_KEY environment variable not set"),
                           reads1, {}, "None", "None")
        ELSE IF needGoogle /\ NotApiKey(environ.GOOGLE_API_KEY)
        THEN FactoryResult(Raised("ValueError", "GOOGLE_API_KEY environment variable not set"),
                           reads2, clients1, "None", "None")
        ELSE FactoryResult(NoError, reads2, clients2, language_model, image_model)

create_generators(language_model, image_model, environ) ==
    LET needXai == language_model = GROK \/ image_model = GROK
        needGoogle == language_model = GEMINI \/ image_model = GEMINI
        reads1 == IF needXai THEN {"XAI_API_KEY"} ELSE {}
        clients1 == IF needXai THEN {"xai"} ELSE {}
        reads2 == IF needGoogle THEN reads1 \cup {"GOOGLE_API_KEY"} ELSE reads1
        clients2 == IF needGoogle THEN clients1 \cup {"google"} ELSE clients1
    IN  IF needXai /\ NotApiKey(environ.XAI_API_KEY)
        THEN FactoryResult(Raised("ValueError", "XAI_API_KEY environment variable not set"),
                           reads1, {}, "None", "None")
        ELSE IF needGoogle /\ NotApiKey(environ.GOOGLE_API_KEY)
        THEN FactoryResult(Raised("ValueError", "GOOGLE_API_KEY environment variable not set"),
                           reads2, clients1, "None", "None")
        ELSE IF language_model \notin {GROK, GEMINI}
        THEN FactoryResult(Raised("ValueError", "API unsupported"),
                           reads2, clients2, "None", "None")
        ELSE IF image_model \notin {GROK, GEMINI}
        THEN FactoryResult(Raised("ValueError", "API unsupported"),
                           reads2, clients2, language_model, "None")
        ELSE FactoryResult(NoError, reads2, clients2, language_model, image_model)

(***************************************************************************)
(* generate_images (lines 158-192).                                        *)
(***************************************************************************)
\* args.output: the output directory (parse_args' default).
output_dir == "out"

\* Path.joinpath: a path is the directory and the name under it.
joinpath(dir, name) == <<dir, name>>

\* A filename list with a fifth slot.
filenames_five_slots == <<"alpha.png", "bravo.png", "charlie.png", "delta.png", "echo.png">>

\* The fixed filename list of line 181.
filenames == <<"alpha.png", "bravo.png", "charlie.png", "delta.png">>

\* An output path that takes the filename list from its end.
OutputPath_reversed(idx) == joinpath(output_dir, filenames[Len(filenames) - idx])

\* output_dir.joinpath(filenames[i]) of line 188, for the 0-based index idx.
OutputPath(idx) == joinpath(output_dir, filenames[idx + 1])

\* The files the run can write.
Paths == {joinpath(output_dir, filenames[n]) : n \in 1..Len(filenames)}

\* The keys an element of `images` can carry.
AllKeys == {"prompt", "date_relevance", "style", "colors"}

\* The elements of `images` the Language Generator can return: complete
\* PromptSpecs with one of two prompts, an object with a prompt and no
\* descriptive field, an object with the descriptive fields and no prompt, and
\* an element that is not an object (a number, a string, a list).
Elements ==
    { [object |-> TRUE, prompt |-> "a cat", keys |-> AllKeys],
      [object |-> TRUE, prompt |-> "a dog", keys |-> AllKeys],
      [object |-> TRUE, prompt |-> "a cat", keys |-> {"prompt"}],
      [object |-> TRUE, prompt |-> "None", keys |-> {"date_relevance", "style", "colors"}],
      [object |-> FALSE, prompt |-> "None", keys |-> {}] }

ImageLists == UNION { [1..n -> Elements] : n \in 0..MaxImages }

\* What lines 176-182 can give: the Language Generator raises; its text is not
\* JSON; the JSON is not an object (a list, a number, a string, null), which
\* lang_res["images"] cannot subscript by a string; the object has no "images"
\* key; "images" is a value enumerate cannot iterate (a number, null); or the
\* sequence of the elements of "images".
LanguageOutcomes ==
    { [kind |-> "raises", images |-> <<>>],
      [kind |-> "malformed", images |-> <<>>],
      [kind |-> "not_object", images |-> <<>>],
      [kind |-> "no_images", images |-> <<>>],
      [kind |-> "not_iterable", images |-> <<>>] }
    \cup { [kind |-> "json", images |-> l] : l \in ImageLists }

\* The first descriptive key of lines 184-186 the element lacks, or "None".
MissingPrintedKey(element) ==
    IF "date_relevance" \notin element.keys THEN "date_relevance"
    ELSE IF "style" \notin element.keys THEN "style"
    ELSE IF "colors" \notin element.keys THEN "colors"
    ELSE "None"

\* What a call of image_generator.generate can do to the file at output_path,
\* which was `before`; "empty" is a file that holds no image (no bytes, or a
\* write cut short).
\* GrokImageGenerator.generate (lines 74-82): image.sample raises and the file
\* is untouched; the file is opened for writing and reading response.image, or
\* the write, raises; the bytes are written, and they are an image or (a
\* provider that returns no image bytes) they are not.
\* GeminiImageGenerator.generate (lines 90-101): generate_content or iterating
\* response.parts raises and the file is untouched; the save of an inline part
\* raises and leaves a file cut short, or a later part raises after an earlier
\* one was saved; no part carries inline data, nothing is saved and the call
\* returns; the inline parts are saved, and the last is an image or is not.
ImageOutcomes(variant, before) ==
    IF variant = GROK
    THEN { [raised |-> TRUE, file |-> before],
           [raised |-> TRUE, file |-> "empty"],
           [raised |-> FALSE, file |-> "image"],
           [raised |-> FALSE, file |-> "empty"] }
    ELSE { [raised |-> TRUE, file |-> before],
           [raised |-> TRUE, file |-> "empty"],
           [raised |-> TRUE, file |-> "image"],
           [raised |-> FALSE, file |-> before],
           [raised |-> FALSE, file |-> "image"],
           [raised |-> FALSE, file |-> "empty"] }

\* A loop that catches the exception and goes on with the next element.
Propagate_swallowed(position) == [pc |-> "loop", i |-> position + 1]

\* An exception raised inside generate_images or main is not caught: the run
\* halts where it is.
Propagate(position) == [pc |-> "halted", i |-> position]

(***************************************************************************)
(* parse_json_response (lines 140-156). A text is a sequence of            *)
(* characters. The characters are those of the fence, of the `json` tag,   *)
(* of two kinds of whitespace, and of a JSON subset: strings without       *)
(* escapes, numbers written with the digit 1, and arrays.                  *)
(***************************************************************************)
\* The backtick character, by name.
BT == "backtick"
QT == "\""
SP == " "
NL == "\n"
Whitespace == {SP, NL}
Fence == <<BT, BT, BT>>
JsonTag == <<"j", "s", "o", "n">>

\* json_str[:200] of line 155.
SnippetLimit == 200

SetMin(S) == CHOOSE x \in S : \A y \in S : x <= y
Prefix(s, n) == SubSeq(s, 1, IF Len(s) < n THEN Len(s) ELSE n)

\* Positions are 0-based, as in Python: position k holds s[k + 1].
StartsWithAt(s, k, pattern) ==
    /\ k + Len(pattern) <= Len(s)
    /\ SubSeq(s, k + 1, k + Len(pattern)) = pattern

\* The end of the whitespace run that starts at position k (\s*, json's _w).
RECURSIVE skipws(_, _)
skipws(s, k) ==
    IF k < Len(s) /\ s[k + 1] \in Whitespace THEN skipws(s, k + 1) ELSE k

\* The start of the whitespace run that ends before position k, not below low.
RECURSIVE backws(_, _, _)
backws(s, k, low) ==
    IF k > low /\ s[k] \in Whitespace THEN backws(s, k - 1, low) ELSE k

\* str.strip() of line 149.
strip(s) ==
    LET a == skipws(s, 0)
        b == backws(s, Len(s), a)
    IN  SubSeq(s, a + 1, b)

\* The match of ```(?:json)?\s*([\s\S]*?)\s*``` that starts at position k: the
\* opening fence, the tag when it follows, all the whitespace after it, then
\* the shortest group that a whitespace run and a closing fence follow.
MatchAt(text, k) ==
    IF ~StartsWithAt(text, k, Fence)
    THEN [matched |-> FALSE, group |-> <<>>]
    ELSE LET a0 == k + 3
             a1 == IF StartsWithAt(text, a0, JsonTag) THEN a0 + 4 ELSE a0
             a2 == skipws(text, a1)
             closings == {p \in a2..Len(text) : StartsWithAt(text, p, Fence)}
         IN  IF closings = {}
             THEN [matched |-> FALSE, group |-> <<>>]
             ELSE [matched |-> TRUE,
                   group |-> SubSeq(text, a2 + 1, backws(text, SetMin(closings), a2))]

\* A fence match that does not know the `json` tag.
re_search_untagged(text) ==
    LET starts == {k \in 0..Len(text) : StartsWithAt(text, k, Fence)}
        closings == {p \in 0..Len(text) : StartsWithAt(text, p, Fence)
                                           /\ starts # {} /\ p >= SetMin(starts) + 3}
    IN  IF closings = {}
        THEN [matched |-> FALSE, group |-> <<>>]
        ELSE [matched |-> TRUE,
              group |-> strip(SubSeq(text, SetMin(starts) + 4, SetMin(closings)))]

\* re.search of line 143: the leftmost match.
re_search(text) ==
    LET starts == {k \in 0..Len(text) : MatchAt(text, k).matched}
    IN  IF starts = {}
        THEN [matched |-> FALSE, group |-> <<>>]
        ELSE MatchAt(text, SetMin(starts))

\* json.loads of line 152. A decoded value is written as its canonical text
\* (the document without the whitespace between its tokens): two documents of
\* the subset decode to the same value exactly when these texts are equal. A
\* failure carries JSONDecodeError's msg and pos.
Decoded(end, val) == [ok |-> TRUE, end |-> end, val |-> val, msg |-> "", pos |-> 0]
DecodeFails(msg, pos) == [ok |-> FALSE, end |-> 0, val |-> <<>>, msg |-> msg, pos |-> pos]

\* json.decoder.scanstring from position `end`, after the opening quote.
scanstring(s, end) ==
    LET stops == {k \in end..(Len(s) - 1) : s[k + 1] \in {QT, NL}}
    IN  IF stops = {}
        THEN DecodeFails("Unterminated string starting at", end - 1)
        ELSE IF s[SetMin(stops) + 1] = NL
        THEN DecodeFails("Invalid control character at", SetMin(stops))
        ELSE Decoded(SetMin(stops) + 1, SubSeq(s, end, SetMin(stops) + 1))

\* The end of the run of digits that starts at position k.
RECURSIVE skipdigits(_, _)
skipdigits(s, k) ==
    IF k < Len(s) /\ s[k + 1] = "1" THEN skipdigits(s, k + 1) ELSE k

RECURSIVE scan_once(_, _), JSONArray(_, _), ArrayItems(_, _, _)
\* json.scanner's scan_once at position idx.
scan_once(s, idx) ==
    IF idx >= Len(s) THEN DecodeFails("Expecting value", idx)
    ELSE IF s[idx + 1] = QT THEN scanstring(s, idx + 1)
    ELSE IF s[idx + 1] = "[" THEN JSONArray(s, idx + 1)
    ELSE IF s[idx + 1] = "1" THEN Decoded(skipdigits(s, idx), SubSeq(s, idx + 1, skipdigits(s, idx)))
    ELSE DecodeFails("Expecting value", idx)

\* json.decoder.JSONArray from position `end`, after the opening bracket.
JSONArray(s, end) ==
    LET e == skipws(s, end)
    IN  IF e < Len(s) /\ s[e + 1] = "]"
        THEN Decoded(e + 1, <<"[", "]">>)
        ELSE ArrayItems(s, e, <<>>)

\* JSONArray's loop: a value, then the closing bracket or a comma.
ArrayItems(s, end, values) ==
    LET r == scan_once(s, end)
        e == skipws(s, r.end)
        all == IF values = <<>> THEN r.val ELSE values \o <<",">> \o r.val
    IN  IF ~r.ok THEN r
        ELSE IF e < Len(s) /\ s[e + 1] = "]" THEN Decoded(e + 1, <<"[">> \o all \o <<"]">>)
        ELSE IF ~(e < Len(s) /\ s[e + 1] = ",") THEN DecodeFails("Expecting ',' delimiter", e)
        ELSE ArrayItems(s, skipws(s, e + 1), all)

\* json.loads: one value between whitespace, and nothing after it.
json_loads(s) ==
    LET r == scan_once(s, skipws(s, 0))
        e == skipws(s, r.end)
    IN  IF ~r.ok THEN r
        ELSE IF e # Len(s) THEN DecodeFails("Extra data", e)
        ELSE r

\* A JSONDecodeError: its msg, its pos and its doc (the text it was raised for).
NoDecodeError == [type |-> "None", msg |-> "", pos |-> 0, doc |-> <<>>]
JSONDecodeError(msg, pos, doc) ==
    [type |-> "JSONDecodeError", msg |-> msg, pos |-> pos, doc |-> doc]

\* str(e) of a JSONDecodeError, in pieces: "<msg>: line l column c (char <pos>)"
\* (line and column, which pos and doc determine, are left out).
ErrorText(e) == <<e.msg, ": (char ", ToString(e.pos), ")">>

ParseResult(status, value, raised, stdout) ==
    [status |-> status, value |-> value, raised |-> raised, stdout |-> stdout]

\* The two lines of lines 154-155, each in pieces.
Diagnostics(e, json_str) ==
    << <<"error parsing JSON: ">> \o ErrorText(e),
       <<"attempted to parse: ">> \o Prefix(json_str, SnippetLimit) \o <<"...">> >>

\* A parser whose except clause prints and forgets to raise again.
parse_json_response_no_reraise(text) ==
    LET m == re_search(text)
        json_str == strip(IF m.matched THEN m.group ELSE text)
        d == json_loads(json_str)
        e == JSONDecodeError(d.msg, d.pos, json_str)
    IN  IF d.ok
        THEN ParseResult("returned", d.val, NoDecodeError, <<>>)
        ELSE ParseResult("returned", <<>>, NoDecodeError, Diagnostics(e, json_str))

parse_json_response(text) ==
    LET m == re_search(text)
        json_str == strip(IF m.matched THEN m.group ELSE text)
        d == json_loads(json_str)
        e == JSONDecodeError(d.msg, d.pos, json_str)
    IN  IF d.ok
        THEN ParseResult("returned", d.val, NoDecodeError, <<>>)
        ELSE ParseResult("raised", <<>>, e, Diagnostics(e, json_str))

(***************************************************************************)
(* crop_to_square (lines 103-138). An image is its size; a target          *)
(* dimension is None or an integer.                                        *)
(***************************************************************************)
\* parse_args' --width and --height defaults (lines 270 and 277).
DefaultWidth == 150
DefaultHeight == 150

None == [some |-> FALSE, v |-> 0]
Some(v) == [some |-> TRUE, v |-> v]
\* Python's truth value of an Optional[int]: None and 0 are false.
Truthy(t) == t.some /\ t.v # 0

Min(a, b) == IF a <= b THEN a ELSE b

\* A crop box anchored at the top left corner.
crop_box_top_left(width, height) ==
    <<0, 0, Min(width, height), Min(width, height)>>

\* Lines 122-127: (left, top, right, bottom).
crop_box(width, height) ==
    LET size == Min(width, height)
        left == (width - size) \div 2
        top == (height - size) \div 2
    IN  <<left, top, left + size, top + size>>

\* Image.crop: the size of the region a box cuts out.
BoxSize(box) == <<box[3] - box[1], box[4] - box[2]>>

CropResult(width, height, box, saved, returned) ==
    [status |-> "done", width |-> width, height |-> height, box |-> box,
     saved |-> saved, returned |-> returned]

\* A crop_to_square that saves the crop before it resizes it.
crop_to_square_save_first(img, target_width, target_height) ==
    LET box == crop_box(img.width, img.height)
        cropped == BoxSize(box)
        resized == IF Truthy(target_width) /\ Truthy(target_height)
                   THEN <<target_width.v, target_height.v>>
                   ELSE cropped
    IN  CropResult(img.width, img.height, box, cropped, resized)

\* Lines 120-138: the image opened has img's size; `saved` is the size of the
\* image written back to image_path, `returned` that of the image returned.
crop_to_square(img, target_width, target_height) ==
    LET box == crop_box(img.width, img.height)
        cropped == BoxSize(box)
        resized == IF Truthy(target_width) /\ Truthy(target_height)
                   THEN <<target_width.v, target_height.v>>
                   ELSE cropped
    IN  CropResult(img.width, img.height, box, resized, resized)

(***************************************************************************)
(* The response texts parse_json_response is applied to.                   *)
(***************************************************************************)
SeqsUpTo(S, n) == UNION { [1..m -> S] : m \in 0..n }

\* The valid JSON documents of the subset, up to MaxJsonLen characters.
JsonChars == {QT, BT, "[", "]", ",", "1"}
JsonDocs == {d \in SeqsUpTo(JsonChars, MaxJsonLen) : json_loads(d).ok}

\* What surrounds the document of a fenced response: prose before the fence
\* (without three backticks, not ending in a backtick), the tag, whitespace on
\* both sides of the document, prose after the closing fence.
Proses == {<<>>, <<"x", NL>>, <<BT, "x", BT, SP>>}
Tags == {<<>>, JsonTag}
Gaps == {<<>>, <<NL>>}
Trailers == {<<>>, <<NL, "x">>, <<"x", BT>>}

Payload(fenced, prose, tag, before, doc, after, trailer) ==
    [fenced |-> fenced, prose |-> prose, tag |-> tag, before |-> before,
     doc |-> doc, after |-> after, trailer |-> trailer]
NoPayload == Payload(FALSE, <<>>, <<>>, <<>>, <<>>, <<>>, <<>>)
FencedPayloads ==
    { Payload(TRUE, prose, tag, before, doc, after, trailer) :
        prose \in Proses, tag \in Tags, before \in Gaps, doc \in JsonDocs,
        after \in Gaps, trailer \in Trailers }
FencedText(f) ==
    f.prose \o Fence \o f.tag \o f.before \o f.doc \o f.after \o Fence \o f.trailer

\* Response texts without a fenced block: every short text, and one text
\* longer than the printed snippet.
PlainChars == {QT, BT, "[", "]", ",", "1", SP, NL, "x"}
LongText == [n \in 1..(SnippetLimit + 1) |-> "]"]
PlainTexts == SeqsUpTo(PlainChars, MaxPlainLen) \cup {LongText}

(***************************************************************************)
(* The run of main (lines 296-322).                                        *)
(***************************************************************************)
NoImages == [bound |-> FALSE, paths |-> <<>>]
NoCrop == [status |-> "idle", width |-> 0, height |-> 0, box |-> <<0, 0, 0, 0>>,
           saved |-> <<0, 0>>, returned |-> <<0, 0>>]

ParseIdle ==
    /\ payload = NoPayload
    /\ parse_out = ParseResult("idle", <<>>, NoDecodeError, <<>>)

CropIdle ==
    /\ image = [width |-> 1, height |-> 1]
    /\ target = [width |-> None, height |-> None]
    /\ crop_out = NoCrop

Init ==
    /\ pc = "main"
    /\ args \in [language : LanguageModel, image : ImageModel, dry_run : BOOLEAN]
    /\ env \in [XAI_API_KEY : EnvValues, GOOGLE_API_KEY : EnvValues]
    /\ env_reads = {}
    /\ clients = {}
    /\ language_generator = "None"
    /\ image_generator = "None"
    /\ lang_res = <<>>
    /\ i = 0
    /\ calls = <<>>
    /\ res = <<>>
    /\ generated_images = NoImages
    /\ j = 0
    /\ disk = [p \in Paths |-> "absent"]
    /\ error = NoError
    /\ net_calls = 0
    /\ ParseIdle
    /\ response = <<>>
    /\ CropIdle

\* Lines 307-309: a dry run prints the configuration and returns.
DryRun ==
    /\ pc = "main"
    /\ args.dry_run
    /\ pc' = "done"
    /\ UNCHANGED <<args, env, env_reads, clients, language_generator, image_generator,
                   lang_res, i, calls, res, generated_images, j, disk, error, net_calls>>

\* Line 316: create_generators(language_model, image_model).
CreateGenerators ==
    /\ pc = "main"
    /\ ~args.dry_run
    /\ LET r == create_generators(args.language, args.image, env)
       IN  /\ env_reads' = r.reads
           /\ clients' = r.clients
           /\ language_generator' = r.language_generator
           /\ image_generator' = r.image_generator
           /\ error' = r.error
           /\ pc' = IF r.error = NoError THEN "generate_images" ELSE "halted"
    /\ UNCHANGED <<args, env, lang_res, i, calls, res, generated_images, j, disk, net_calls>>

\* Lines 176-182: the Language Generator call, the parse of its text and the
\* evaluation of enumerate(lang_res["images"]).
GeneratePrompts ==
    /\ pc = "generate_images"
    /\ net_calls' = net_calls + 1
    /\ \E o \in LanguageOutcomes :
         /\ lang_res' = o.images
         /\ error' = CASE o.kind = "raises" -> Raised("ProviderError", "language")
                       [] o.kind = "malformed" -> Raised("JSONDecodeError", "")
                       [] o.kind = "not_object" -> Raised("TypeError", "lang_res")
                       [] o.kind = "no_images" -> Raised("KeyError", "images")
                       [] o.kind = "not_iterable" -> Raised("TypeError", "images")
                       [] OTHER -> NoError
         /\ pc' = IF o.kind = "json" THEN "loop" ELSE "halted"
    /\ UNCHANGED <<args, env, env_reads, clients, language_generator, image_generator,
                   i, calls, res, generated_images, j, disk>>

\* Lines 182-190: one iteration of the loop over lang_res["images"].
GenerateImage ==
    /\ pc = "loop"
    /\ i < Len(lang_res)
    /\ LET element == lang_res[i + 1]
           missing == MissingPrintedKey(element)
       IN  IF ~element.object
           THEN /\ error' = Raised("TypeError", "image")
                /\ pc' = Propagate(i).pc
                /\ i' = Propagate(i).i
                /\ UNCHANGED <<calls, res, disk, net_calls>>
           ELSE IF missing # "None"
           THEN /\ error' = Raised("KeyError", missing)
                /\ pc' = Propagate(i).pc
                /\ i' = Propagate(i).i
                /\ UNCHANGED <<calls, res, disk, net_calls>>
           ELSE IF i >= Len(filenames)
           THEN /\ error' = Raised("IndexError", "list index out of range")
                /\ pc' = Propagate(i).pc
                /\ i' = Propagate(i).i
                /\ UNCHANGED <<calls, res, disk, net_calls>>
           ELSE IF "prompt" \notin element.keys
           THEN /\ error' = Raised("KeyError", "prompt")
                /\ pc' = Propagate(i).pc
                /\ i' = Propagate(i).i
                /\ UNCHANGED <<calls, res, disk, net_calls>>
           ELSE \E o \in ImageOutcomes(image_generator, disk[OutputPath(i)]) :
                /\ net_calls' = net_calls + 1
                /\ calls' = Append(calls, [prompt |-> element.prompt,
                                           output_path |-> OutputPath(i),
                                           raised |-> o.raised,
                                           wrote |-> o.file = "image"])
                /\ disk' = [disk EXCEPT ![OutputPath(i)] = o.file]
                /\ IF o.raised
                   THEN /\ error' = Raised("ProviderError", "image")
                        /\ pc' = Propagate(i).pc
                        /\ i' = Propagate(i).i
                        /\ res' = res
                   ELSE /\ res' = Append(res, OutputPath(i))
                        /\ i' = i + 1
                        /\ UNCHANGED <<pc, error>>
    /\ UNCHANGED <<args, env, env_reads, clients, language_generator, image_generator,
                   lang_res, generated_images, j>>

\* Line 192 and line 315: the loop is over, generate_images returns res.
ReturnImages ==
    /\ pc = "loop"
    /\ i >= Len(lang_res)
    /\ generated_images' = [bound |-> TRUE, paths |-> res]
    /\ pc' = "crop"
    /\ UNCHANGED <<args, env, env_reads, clients, language_generator, image_generator,
                   lang_res, i, calls, res, j, disk, error, net_calls>>

\* Lines 321-322: crop_to_square on the next generated image. Image.open
\* raises when no file is at the path, or a file that holds no image.
CropImage ==
    /\ pc = "crop"
    /\ j < Len(generated_images.paths)
    /\ LET path == generated_images.paths[j + 1]
       IN  IF disk[path] \in {"image", "square"}
           THEN /\ disk' = [disk EXCEPT ![path] = "square"]
                /\ j' = j + 1
                /\ UNCHANGED <<pc, error>>
           ELSE /\ error' = IF disk[path] = "absent"
                            THEN Raised("FileNotFoundError", path[2])
                            ELSE Raised("UnidentifiedImageError", path[2])
                /\ pc' = "halted"
                /\ UNCHANGED <<disk, j>>
    /\ UNCHANGED <<args, env, env_reads, clients, language_generator, image_generator,
                   lang_res, i, calls, res, generated_images, net_calls>>

\* main returns after the last crop.
Finish ==
    /\ pc = "crop"
    /\ j >= Len(generated_images.paths)
    /\ pc' = "done"
    /\ UNCHANGED <<args, env, env_reads, clients, language_generator, image_generator,
                   lang_res, i, calls, res, generated_images, j, disk, error, net_calls>>

Next ==
    /\ \/ DryRun
       \/ CreateGenerators
       \/ GeneratePrompts
       \/ GenerateImage
       \/ ReturnImages
       \/ CropImage
       \/ Finish
    /\ UNCHANGED <<parseVars, cropVars>>

Spec == Init /\ [][Next]_vars

(***************************************************************************)
(* parse_json_response applied to one response text (SpecParse).           *)
(***************************************************************************)
RunIdle ==
    /\ pc = "idle"
    /\ args = [language |-> GROK, image |-> GEMINI, dry_run |-> FALSE]
    /\ env = [XAI_API_KEY |-> "unset", GOOGLE_API_KEY |-> "unset"]
    /\ env_reads = {}
    /\ clients = {}
    /\ language_generator = "None"
    /\ image_generator = "None"
    /\ lang_res = <<>>
    /\ i = 0
    /\ calls = <<>>
    /\ res = <<>>
    /\ generated_images = NoImages
    /\ j = 0
    /\ disk = [p \in Paths |-> "absent"]
    /\ error = NoError
    /\ net_calls = 0

InitParse ==
    /\ RunIdle
    /\ CropIdle
    /\ \/ \E f \in FencedPayloads : payload = f /\ response = FencedText(f)
       \/ \E t \in PlainTexts : payload = NoPayload /\ response = t
    /\ parse_out = ParseResult("idle", <<>>, NoDecodeError, <<>>)

\* Lines 140-156: the call of parse_json_response on the response text.
ParseJsonResponse ==
    /\ parse_out.status = "idle"
    /\ pc = "idle"
    /\ parse_out' = parse_json_response(response)
    /\ UNCHANGED <<response, payload, runVars, cropVars>>

NextParse == ParseJsonResponse

SpecParse == InitParse /\ [][NextParse]_vars

(***************************************************************************)
(* crop_to_square applied to one image file (SpecCrop).                    *)
(***************************************************************************)
Targets == {None} \cup {Some(v) : v \in 0..MaxTarget} \cup {Some(DefaultWidth)}

InitCrop ==
    /\ RunIdle
    /\ ParseIdle
    /\ response = <<>>
    /\ image \in [width : 1..MaxDim, height : 1..MaxDim]
    /\ target \in [width : Targets, height : Targets]
    /\ crop_out = NoCrop

\* Lines 120-138: the call of crop_to_square; the file is overwritten.
CropToSquare ==
    /\ crop_out.status = "idle"
    /\ pc = "idle"
    /\ crop_out' = crop_to_square(image, target.width, target.height)
    /\ image' = [width |-> crop_out'.saved[1], height |-> crop_out'.saved[2]]
    /\ UNCHANGED <<target, runVars, parseVars>>

NextCrop == CropToSquare

SpecCrop == InitCrop /\ [][NextCrop]_vars

(***************************************************************************)
(* Claims about the run (specification Spec).                              *)
(***************************************************************************)
\* The filename slots and the files the claims speak of.
Slot(n) == <<"out", <<"alpha.png", "bravo.png", "charlie.png", "delta.png">>[n]>>
OnDisk(path) == disk[path] \in {"image", "square"}
Complete(element) ==
    element.object /\ element.keys = {"prompt", "date_relevance", "style", "colors"}

\* C1: when generate_images returns for a response of N <= 4 PromptSpecs, it
\* has made exactly N Image Generator calls, the n-th with the n-th PromptSpec's
\* prompt and the destination output_dir/<n-th of alpha, bravo, charlie,
\* delta>.png, and it returns exactly those N paths in that order; and with N <= 4
\* complete PromptSpecs the loop ends early only when a provider call raises.
C1_OrderedCalls ==
    /\ (generated_images.bound /\ Len(lang_res) <= 4) =>
          /\ Len(calls) = Len(lang_res)
          /\ \A n \in 1..Len(lang_res) :
                /\ calls[n].prompt = lang_res[n].prompt
                /\ calls[n].output_path = Slot(n)
                /\ ~calls[n].raised
          /\ generated_images.paths = [n \in 1..Len(lang_res) |-> Slot(n)]
    /\ (/\ pc = "halted"
        /\ error.kind \notin {"ValueError", "JSONDecodeError", "TypeError"}
        /\ error # Raised("KeyError", "images")
        /\ error # Raised("ProviderError", "language")
        /\ Len(lang_res) <= 4
        /\ \A n \in 1..Len(lang_res) : Complete(lang_res[n])
        /\ ~generated_images.bound) =>
          /\ error = Raised("ProviderError", "image")
          /\ calls # <<>>
          /\ calls[Len(calls)].raised

\* Three PromptSpecs with differing prompts were rendered and returned.
C1_Witness ==
    /\ generated_images.bound
    /\ Len(lang_res) = 3
    /\ lang_res[1].prompt # lang_res[2].prompt
    /\ Len(calls) = 3

\* C2: once an exception has ended the run (raised by the Language Generator,
\* the parse, an Image Generator call or anything else), no further provider
\* call is made, and every file an earlier Image Generator call wrote is still
\* on disk.
C2_FailFast ==
    /\ [](error # NoError =>
             \A n \in 1..Len(calls) : calls[n].wrote => OnDisk(calls[n].output_path))
    /\ [][error # NoError =>
             /\ calls' = calls
             /\ net_calls' = net_calls
             /\ \A p \in DOMAIN disk : OnDisk(p) => disk'[p] = disk[p]]_vars

\* The third Image Generator call of four raised after two files were written.
C2_Witness ==
    /\ pc = "halted"
    /\ error = Raised("ProviderError", "image")
    /\ Len(lang_res) = 4
    /\ Len(calls) = 3
    /\ calls[1].wrote /\ calls[2].wrote
    /\ OnDisk(Slot(1)) /\ OnDisk(Slot(2))

\* C3: whenever an Image Generator call returned without raising, an image file
\* exists at its output_path, so that the Image Normalizer never meets a
\* returned path with no file.
C3_FileExistsAfterGenerate ==
    /\ \A n \in 1..Len(calls) : ~calls[n].raised => OnDisk(calls[n].output_path)
    /\ error.kind # "FileNotFoundError"

\* C4: create_generators raises the configuration error exactly when the
\* credential of a provider selected by the language or the image role is
\* absent (unset or empty); it reads no credential of a provider neither role
\* selects; and when it raises, no generator exists and no provider call was made.
C4_CredentialCheck ==
    (pc # "main" /\ ~args.dry_run) =>
        LET selected == {args.language, args.image}
            variable == [p \in {"grok", "gemini"} |->
                            IF p = "grok" THEN "XAI_API_KEY" ELSE "GOOGLE_API_KEY"]
            absent(p) == env[variable[p]] \in {"unset", "empty"}
            failed == error.kind = "ValueError"
        IN  /\ failed <=> \E p \in selected : absent(p)
            /\ env_reads \subseteq {variable[p] : p \in selected}
            /\ failed => /\ language_generator = "None"
                         /\ image_generator = "None"
                         /\ net_calls = 0
                         /\ pc = "halted"
            /\ ~failed => /\ language_generator = args.language
                          /\ image_generator = args.image

\* The Google credential is missing for the image role after the xAI client
\* was built for the language role.
C4_Witness ==
    /\ pc = "halted"
    /\ error.kind = "ValueError"
    /\ args.language = "grok" /\ args.image = "gemini"
    /\ env.XAI_API_KEY = "key" /\ env.GOOGLE_API_KEY = "unset"
    /\ clients = {"xai"}

\* C9: with more than 4 PromptSpecs in the response, generate_images never
\* returns a path list and no file is normalized; the index-out-of-range error
\* arises at the 5th PromptSpec only, after the 4 Image Generator calls for the
\* first 4 have completed, and the files they wrote are on disk; and a run that
\* completed those 4 calls and reaches a complete 5th PromptSpec ends with it.
C9_TooManyPrompts ==
    Len(lang_res) > 4 =>
        /\ ~generated_images.bound
        /\ j = 0
        /\ \A p \in DOMAIN disk : disk[p] # "square"
        /\ error.kind = "IndexError" =>
              /\ pc = "halted"
              /\ i = 4
              /\ Len(calls) = 4
              /\ \A n \in 1..4 : /\ ~calls[n].raised
                                 /\ calls[n].output_path = Slot(n)
                                 /\ calls[n].wrote => disk[Slot(n)] = "image"
        /\ (/\ pc = "halted"
            /\ Len(calls) = 4
            /\ ~calls[4].raised
            /\ Complete(lang_res[5])) => error.kind = "IndexError"

\* Five PromptSpecs: four files written, then the index error.
C9_Witness ==
    /\ Len(lang_res) = 5
    /\ error.kind = "IndexError"
    /\ \A n \in 1..4 : disk[Slot(n)] = "image"

\* C10: an element of `images` that carries a prompt is rendered whether or not
\* it carries date_relevance, style and colors: the loop raises a key error
\* only for an element without a prompt.
C10_DescriptiveFieldsOptional ==
    (error.kind = "KeyError" /\ error.detail # "images") =>
        "prompt" \notin lang_res[i + 1].keys

(***************************************************************************)
(* Claims about parse_json_response (specification SpecParse).             *)
(***************************************************************************)
ContainsFence(s) ==
    \E k \in 1..(Len(s) - 2) : s[k] = BT /\ s[k + 1] = BT /\ s[k + 2] = BT
HasFencedBlock(s) ==
    \E k \in 1..(Len(s) - 2) : \E p \in (k + 3)..(Len(s) - 2) :
        /\ s[k] = BT /\ s[k + 1] = BT /\ s[k + 2] = BT
        /\ s[p] = BT /\ s[p + 1] = BT /\ s[p + 2] = BT
ReturnsValueOf(doc) ==
    /\ parse_out.status = "returned"
    /\ parse_out.value = json_loads(doc).val
SameAsDecoding(text) ==
    IF json_loads(text).ok
    THEN ReturnsValueOf(text)
    ELSE parse_out.status = "raised"

\* C5 as claimed: for prose, one fenced block (with or without the json tag)
\* around a valid JSON document J, and prose after it, the parser returns the
\* value of J, for every valid J, backticks inside its strings included; and a
\* text without a fenced block gives what decoding the trimmed text gives.
C5_FencedRoundTrip ==
    parse_out.status # "idle" =>
        /\ payload.fenced => ReturnsValueOf(payload.doc)
        /\ ~HasFencedBlock(response) => SameAsDecoding(strip(response))

\* C5 amended: the same, for every valid J that contains no three backticks in
\* a row (the prose before the fence has none either and does not end in a
\* backtick).
C5_FencedRoundTripWithoutInnerFence ==
    parse_out.status # "idle" =>
        /\ (payload.fenced /\ ~ContainsFence(payload.doc)) => ReturnsValueOf(payload.doc)
        /\ ~HasFencedBlock(response) => SameAsDecoding(strip(response))

\* A tagged block between prose, its document a string with two backticks.
C5_Witness ==
    /\ parse_out.status = "returned"
    /\ payload.fenced
    /\ payload.tag = JsonTag
    /\ payload.prose # <<>>
    /\ payload.trailer # <<>>
    /\ payload.doc = <<QT, BT, BT, QT>>
    /\ parse_out.value = <<QT, BT, BT, QT>>

\* The candidate text of a response: the first fenced block's interior, or the
\* whole text, trimmed.
Candidate(text) == strip(IF re_search(text).matched THEN re_search(text).group ELSE text)
Contains(line, pieces) ==
    \E k \in 0..(Len(line) - Len(pieces)) : SubSeq(line, k + 1, k + Len(pieces)) = pieces

\* C6 as claimed: when the candidate text is not valid JSON the parser raises
\* an error that itself contains "error parsing JSON", the decode error detail
\* and a non-empty snippet (a prefix of at most 200 characters) of the candidate.
C6_ErrorCarriesDiagnostics ==
    (parse_out.status # "idle" /\ ~json_loads(Candidate(response)).ok) =>
        /\ parse_out.status = "raised"
        /\ Contains(ErrorText(parse_out.raised), <<"error parsing JSON: ">>)
        /\ parse_out.raised.msg = json_loads(Candidate(response)).msg
        /\ Prefix(Candidate(response), 200) # <<>>
        /\ Contains(ErrorText(parse_out.raised), Prefix(Candidate(response), 200))

\* C6 amended: when the candidate text is not valid JSON the parser raises the
\* decoder's own error (its detail, position and the candidate), whose text
\* does not contain "error parsing JSON"; that string with the decode error
\* detail, and the first 200 characters of the candidate (none when the
\* candidate is empty), are printed instead, on two lines.
C6_RaisesDecodeErrorAndPrints ==
    (parse_out.status # "idle" /\ ~json_loads(Candidate(response)).ok) =>
        LET candidate == Candidate(response)
            d == json_loads(candidate)
            snippet == SubSeq(candidate, 1, IF Len(candidate) > 200 THEN 200 ELSE Len(candidate))
        IN  /\ parse_out.status = "raised"
            /\ parse_out.raised.type = "JSONDecodeError"
            /\ parse_out.raised.msg = d.msg
            /\ parse_out.raised.pos = d.pos
            /\ parse_out.raised.doc = candidate
            /\ ~Contains(ErrorText(parse_out.raised), <<"error parsing JSON: ">>)
            /\ Len(parse_out.stdout) = 2
            /\ parse_out.stdout[1] = <<"error parsing JSON: ", d.msg, ": (char ", ToString(d.pos), ")">>
            /\ parse_out.stdout[2] = <<"attempted to parse: ">> \o snippet \o <<"...">>
            /\ Len(snippet) <= 200
            /\ (snippet = <<>>) <=> (candidate = <<>>)

\* A truncated array: the decoder expects a value after the comma.
C6_Witness ==
    /\ response = <<"[", "1", ",">>
    /\ parse_out.status = "raised"
    /\ parse_out.raised.msg = "Expecting value"
    /\ parse_out.raised.pos = 3

(***************************************************************************)
(* Claims about crop_to_square (specification SpecCrop).                   *)
(***************************************************************************)
\* C7: for an image of width w >= 1 and height h >= 1 the crop box is
\* size = min(w, h), left = (w - size) div 2, top = (h - size) div 2,
\* right = left + size, bottom = top + size; so with w >= h, top = 0,
\* left = (w - h) div 2 and the side is h (and likewise with h >= w), and the
\* box lies inside the image.
C7_CropBox ==
    crop_out.status = "done" =>
        LET w == crop_out.width
            h == crop_out.height
            size == IF w <= h THEN w ELSE h
            left == crop_out.box[1]
            top == crop_out.box[2]
            right == crop_out.box[3]
            bottom == crop_out.box[4]
        IN  /\ w >= 1 /\ h >= 1
            /\ left = (w - size) \div 2
            /\ top = (h - size) \div 2
            /\ right = left + size
            /\ bottom = top + size
            /\ w >= h => (top = 0 /\ left = (w - h) \div 2 /\ right - left = h /\ bottom - top = h)
            /\ h >= w => (left = 0 /\ top = (h - w) \div 2 /\ right - left = w /\ bottom - top = w)
            /\ 0 <= left /\ right <= w
            /\ 0 <= top /\ bottom <= h

\* A 5 x 2 image: the odd surplus of 3 columns leaves 1 on the left, 2 on the right.
C7_Witness ==
    /\ crop_out.status = "done"
    /\ crop_out.width = 5
    /\ crop_out.height = 2
    /\ crop_out.box = <<1, 0, 3, 2>>

\* C8: after crop_to_square the image at the path is target_width x
\* target_height when both targets are given and not zero, and min(w, h) x
\* min(w, h) when a target is None or zero; a square image of side S with no
\* targets keeps side S.
C8_PersistedSize ==
    crop_out.status = "done" =>
        LET w == crop_out.width
            h == crop_out.height
            side == IF w <= h THEN w ELSE h
            given(t) == t.some /\ t.v # 0
        IN  /\ (given(target.width) /\ given(target.height)) =>
                  image = [width |-> target.width.v, height |-> target.height.v]
            /\ ~(given(target.width) /\ given(target.height)) =>
                  image = [width |-> side, height |-> side]
            /\ (w = h /\ ~target.width.some /\ ~target.height.some) =>
                  image = [width |-> w, height |-> w]

\* A 5 x 2 image normalized to the default 150 x 150.
C8_Witness ==
    /\ crop_out.status = "done"
    /\ crop_out.width = 5
    /\ crop_out.height = 2
    /\ target = [width |-> Some(150), height |-> Some(150)]
    /\ image = [width |-> 150, height |-> 150]

====
